---- MODULE Spec2Model ----
(***************************************************************************)
(* Model of src/app.py, the operating-room cleaning dashboard: one script  *)
(* run ("render pass") per user interaction.  A pass loads the uploaded    *)
(* file (load_data), cleans it (process_data), applies the sidebar filters *)
(* and renders the metrics, the two chart groupings and the detail table.  *)
(*                                                                         *)
(* Text is a sequence of one-character strings, so that lower(), strip()   *)
(* and split() are computed character by character as Python does.  A cell *)
(* of the sheet is a record tagged with its Python type: "str" (v = the    *)
(* characters), "nan" (an empty cell), "int" (v = its decimal digits) or,  *)
(* for the two time columns, "datahora" (a value pandas can parse).        *)
(***************************************************************************)
EXTENDS Integers, Sequences, FiniteSets, TLC

\* Largest number of data rows of an uploaded file.
MaxRows == 2

----------------------------------------------------------------------------
(* Cells *)

Str(s) == [t |-> "str", v |-> s]
NaN == [t |-> "nan", v |-> <<>>]
Inteiro(ds) == [t |-> "int", v |-> ds]
DataHora(d, s) == [t |-> "datahora", dia |-> d, seg |-> s]

\* A parsed time column holds a timestamp (seconds since day 0) or NaT.
Timestamp(n) == [nat |-> FALSE, secs |-> n]
NaT == [nat |-> TRUE, secs |-> 0]

\* A float: a rational number of minutes num/den (den > 0), or nan.
Float(n, d) == [nan |-> FALSE, num |-> n, den |-> d]
FloatNaN == [nan |-> TRUE, num |-> 0, den |-> 1]

None == [t |-> "none"]

----------------------------------------------------------------------------
(* Python str methods *)

Maiusculas == <<"A","B","C","D","E","F","G","H","I","J","K","L","M",
                "N","O","P","Q","R","S","T","U","V","W","X","Y","Z">>
Minusculas == <<"a","b","c","d","e","f","g","h","i","j","k","l","m",
                "n","o","p","q","r","s","t","u","v","w","x","y","z">>
Whitespace == {" ", "\t", "\n"}

ParaMinuscula ==
    [c \in {Maiusculas[i] : i \in DOMAIN Maiusculas} |->
        Minusculas[CHOOSE i \in DOMAIN Maiusculas : Maiusculas[i] = c]]

lower_char(c) == IF c \in DOMAIN ParaMinuscula THEN ParaMinuscula[c] ELSE c

\* s.lower()
lower(s) == [i \in DOMAIN s |-> lower_char(s[i])]

\* s.lstrip(chars), s.rstrip(chars), s.strip(chars)
lstrip_chars(s, chars) ==
    LET keep == {i \in DOMAIN s : s[i] \notin chars}
    IN IF keep = {} THEN <<>>
       ELSE SubSeq(s, CHOOSE i \in keep : \A j \in keep : i <= j, Len(s))

rstrip_chars(s, chars) ==
    LET keep == {i \in DOMAIN s : s[i] \notin chars}
    IN IF keep = {} THEN <<>>
       ELSE SubSeq(s, 1, CHOOSE i \in keep : \A j \in keep : j <= i)

strip_chars(s, chars) == rstrip_chars(lstrip_chars(s, chars), chars)

\* s.strip()
strip(s) == strip_chars(s, Whitespace)

\* s.split(sep) for a one-character separator
RECURSIVE split(_, _)
split(s, sep) ==
    LET at == {i \in DOMAIN s : s[i] = sep}
    IN IF at = {} THEN <<s>>
       ELSE LET i == CHOOSE i \in at : \A j \in at : i <= j
            IN <<SubSeq(s, 1, i - 1)>> \o split(SubSeq(s, i + 1, Len(s)), sep)

\* s.endswith(suffix)
endswith(s, suffix) ==
    /\ Len(suffix) <= Len(s)
    /\ SubSeq(s, Len(s) - Len(suffix) + 1, Len(s)) = suffix

\* str(n) for n >= 0
RECURSIVE digits(_)
digits(n) ==
    LET d == <<"0","1","2","3","4","5","6","7","8","9">>[(n % 10) + 1]
    IN IF n < 10 THEN <<d>> ELSE Append(digits(n \div 10), d)

\* f"{n:02d}": sign, then the digits zero-filled to a total width of 2
format_02d(n) ==
    IF n < 0 THEN <<"-">> \o digits(-n)
    ELSE IF n < 10 THEN <<"0">> \o digits(n)
    ELSE digits(n)

----------------------------------------------------------------------------
(* formatar_tempo_minutos, extrair_sala *)

NA == <<"N","/","A">>

\* int(minutos // 60) and int(minutos % 60) for minutos = num/den:
\* Python's floor division and its modulo with the sign of the divisor.
formatar_tempo_minutos(minutos) ==
    IF minutos.nan THEN NA
    ELSE LET horas == minutos.num \div (60 * minutos.den)
             minutos_restantes == (minutos.num % (60 * minutos.den)) \div minutos.den
         IN format_02d(horas) \o <<":">> \o format_02d(minutos_restantes)

Desconhecida == <<"D","e","s","c","o","n","h","e","c","i","d","a">>

\* The expression of line 33, for a str.
UltimoSegmento(s) ==
    LET partes == split(strip_chars(s, {"/"}), "/")
    IN strip(partes[Len(partes)])

\* extrair_sala with the test of line 30 written "and local": a blank string
\* is taken for a path.
extrair_sala_sem_strip(local) ==
    IF local.t = "str" /\ local.v # <<>>
    THEN UltimoSegmento(local.v)
    ELSE Desconhecida

\* Lines 28-37: nothing in the try block raises for a str, so the except
\* branch adds no outcome; every other value falls through to line 37.
extrair_sala(local) ==
    IF local.t = "str" /\ strip(local.v) # <<>>
    THEN UltimoSegmento(local.v)
    ELSE Desconhecida

----------------------------------------------------------------------------
(* load_data *)

\* A message shown on the page: st.error / st.warning / st.info.
\* detalhe holds the column names a message lists, in order.
Msg(level, kind, detalhe) == [level |-> level, kind |-> kind, detalhe |-> detalhe]

\* The usecols list of lines 49 and 51, in order.
usecols == <<"N", "Status", "Origem", "Servico", "Local", "InicioReal", "TerminoReal">>
required_columns == <<"Servico", "Local", "InicioReal", "TerminoReal">>

Ausentes(lista, columns) == SelectSeq(lista, LAMBDA col : col \notin columns)

xlsx == <<".","x","l","s","x">>
csv == <<".","c","s","v">>

\* pd.read_excel / pd.read_csv with usecols given as a list of names: the
\* read raises when the file cannot be parsed, and raises ValueError
\* ("Usecols do not match columns, columns expected but not found: [...]")
\* when a name of usecols is not a column of the file.
read_usecols(uploaded_file) ==
    IF ~uploaded_file.legivel
    THEN [raised |-> TRUE, e |-> <<>>, df |-> None]
    ELSE IF Ausentes(usecols, uploaded_file.columns) # <<>>
    THEN [raised |-> TRUE, e |-> Ausentes(usecols, uploaded_file.columns), df |-> None]
    ELSE [raised |-> FALSE, e |-> <<>>,
          df |-> [columns |-> {usecols[i] : i \in DOMAIN usecols},
                  rows |-> uploaded_file.rows]]

\* df.empty
empty(df) == df.rows = <<>> \/ df.columns = {}

\* Returns the value returned and the messages shown.
load_data(uploaded_file) ==
    LET file_name == lower(uploaded_file.name)
    IN IF ~(endswith(file_name, xlsx) \/ endswith(file_name, csv))
       THEN [ret |-> None, msgs |-> {Msg("error", "formato", <<>>)}]
       ELSE LET lido == read_usecols(uploaded_file)
                missing_columns ==
                    Ausentes(required_columns, lido.df.columns)
            IN IF lido.raised
               THEN [ret |-> None, msgs |-> {Msg("error", "excecao_carregar", lido.e)}]
               ELSE IF missing_columns # <<>>
               THEN [ret |-> None, msgs |-> {Msg("error", "colunas", missing_columns)}]
               ELSE IF empty(lido.df)
               THEN [ret |-> None, msgs |-> {Msg("error", "vazio", <<>>)}]
               ELSE [ret |-> lido.df, msgs |-> {}]

----------------------------------------------------------------------------
(* process_data *)

MapRows(rows, F(_)) == [i \in DOMAIN rows |-> F(rows[i])]

\* Series.astype(str): str(value) of each cell ("nan" for an empty cell).
astype_str(cell) ==
    IF cell.t = "nan" THEN Str(<<"n","a","n">>) ELSE Str(cell.v)

\* Lines 81-82.
CoageTexto(rows) ==
    MapRows(rows, LAMBDA r : [r EXCEPT !.Status = astype_str(@),
                                       !.Servico = astype_str(@)])

finalizada == <<"f","i","n","a","l","i","z","a","d","a">>

\* Line 85 left out: every status is kept.
FiltraStatusTodos(rows) == rows

\* Line 85.
FiltraStatus(rows) ==
    SelectSeq(rows, LAMBDA r : lower(r.Status.v) = finalizada)

\* pd.to_datetime(errors='coerce'): a value that parses becomes the timestamp,
\* anything else NaT.
to_datetime(cell) ==
    IF cell.t = "datahora" THEN Timestamp(cell.dia * (24 * 3600) + cell.seg) ELSE NaT

\* Lines 88-89.
ConverteDatas(rows) ==
    MapRows(rows, LAMBDA r : [r EXCEPT !.InicioReal = to_datetime(@),
                                       !.TerminoReal = to_datetime(@)])

\* Line 92.
ExtraiSalas(rows) ==
    MapRows(rows, LAMBDA r : r @@ [SalaCirurgica |-> extrair_sala(r.Local)])

\* Line 95.
NormalizaServico(rows) ==
    MapRows(rows, LAMBDA r : [r EXCEPT !.Servico = Str(lower(strip(@.v)))])

limpeza_terminal == <<"l","i","m","p","e","z","a"," ","t","e","r","m","i","n","a","l">>
limpeza_concorrente ==
    <<"l","i","m","p","e","z","a"," ","c","o","n","c","o","r","r","e","n","t","e">>
valid_services == {limpeza_terminal, limpeza_concorrente}

\* Line 97 left out: every service is kept.
FiltraServicoTodos(rows) == rows

\* Line 97.
FiltraServico(rows) ==
    SelectSeq(rows, LAMBDA r : r.Servico.v \in valid_services)

\* Line 104.
DropNaDatas(rows) ==
    SelectSeq(rows, LAMBDA r : ~r.InicioReal.nat /\ ~r.TerminoReal.nat)

\* Line 107: the difference of the two timestamps, in seconds, over 60.
DuracaoMinutos(r) == Float(r.TerminoReal.secs - r.InicioReal.secs, 60)

\* Lines 107-108.
CalculaDuracao(rows) ==
    MapRows(rows, LAMBDA r :
        r @@ [DuracaoMinutos |-> DuracaoMinutos(r),
              DuracaoFormatada |-> formatar_tempo_minutos(DuracaoMinutos(r))])

\* Lines 81-97.
Filtragem(rows) ==
    FiltraServico(NormalizaServico(ExtraiSalas(ConverteDatas(
        FiltraStatus(CoageTexto(rows))))))

\* Line 77 left out: lines 81-82 assign the columns of the caller's frame.
EntradaSemCopia(df) == [df EXCEPT !.rows = CoageTexto(@)]

\* What the caller's frame holds after the call: line 77 works on a copy.
EntradaAposChamada(df) == df

\* The except branch of lines 111-114 returning the frame instead of None.
process_data_parcial(df, excecao) ==
    [ret |-> [columns |-> df.columns
                  \cup {"SalaCirurgica", "DuracaoMinutos", "DuracaoFormatada"},
              rows |-> CalculaDuracao(DropNaDatas(Filtragem(df.rows)))],
     msgs |-> IF excecao THEN {Msg("error", "excecao_processar", <<>>)} ELSE {}]

\* excecao: an unexpected exception is raised inside the try block.
\* Returns the value returned and the messages shown.
process_data(df, excecao) ==
    IF excecao
    THEN [ret |-> None, msgs |-> {Msg("error", "excecao_processar", <<>>)}]
    ELSE IF Filtragem(df.rows) = <<>>
    THEN [ret |-> None, msgs |-> {Msg("warning", "nenhum_valido", <<>>)}]
    ELSE [ret |-> [columns |-> df.columns
                        \cup {"SalaCirurgica", "DuracaoMinutos", "DuracaoFormatada"},
                   rows |-> CalculaDuracao(DropNaDatas(Filtragem(df.rows)))],
          msgs |-> {}]

----------------------------------------------------------------------------
(* The sidebar filters and the indicators: lines 141-241 *)

\* Timestamp.date(): the calendar day of a timestamp.
date(ts) == ts.secs \div (24 * 3600)

Minimo(S) == CHOOSE a \in S : \A b \in S : a <= b
Maximo(S) == CHOOSE a \in S : \A b \in S : b <= a

Valores(rows, F(_)) == {F(rows[i]) : i \in DOMAIN rows}

\* Lines 141-142 (process_data leaves no NaT in 'Início Real').
data_min(rows) == Minimo(Valores(rows, LAMBDA r : date(r.InicioReal)))
data_max(rows) == Maximo(Valores(rows, LAMBDA r : date(r.InicioReal)))

\* Line 147: both ends inclusive.
FiltraDatas(rows, data_inicio, data_fim) ==
    SelectSeq(rows, LAMBDA r : /\ date(r.InicioReal) >= data_inicio
                               /\ date(r.InicioReal) <= data_fim)

\* Lines 150-152.
salas_disponiveis(df_interim) == Valores(df_interim, LAMBDA r : r.SalaCirurgica)

tipos_limpeza == {"Todos", "Limpeza Terminal", "Limpeza Concorrente"}
tipo_map(tipo) ==
    IF tipo = "Limpeza Terminal" THEN limpeza_terminal ELSE limpeza_concorrente

\* Lines 163-164.
FiltraSalas(rows, sala_selecionada) ==
    IF sala_selecionada # {}
    THEN SelectSeq(rows, LAMBDA r : r.SalaCirurgica \in sala_selecionada)
    ELSE rows

\* Lines 166-168.
FiltraTipo(rows, tipo_selecionado) ==
    IF tipo_selecionado # "Todos"
    THEN SelectSeq(rows, LAMBDA r : r.Servico.v = tipo_map(tipo_selecionado))
    ELSE rows

\* Lines 147-168.
df_final(rows, f) ==
    FiltraTipo(FiltraSalas(FiltraDatas(rows, f.data_inicio, f.data_fim),
                           f.sala_selecionada),
               f.tipo_selecionado)

DoServico(rows, servico) == SelectSeq(rows, LAMBDA r : r.Servico.v = servico)

RECURSIVE SomaSegundos(_)
SomaSegundos(rows) ==
    IF rows = <<>> THEN 0
    ELSE Head(rows).DuracaoMinutos.num + SomaSegundos(Tail(rows))

\* Series.mean() of 'Duração Minutos': nan for no rows.
mean(rows) ==
    IF rows = <<>> THEN FloatNaN ELSE Float(SomaSegundos(rows), 60 * Len(rows))

\* Lines 195 and 197.
MediaFormatada(media) == IF ~media.nan THEN formatar_tempo_minutos(media) ELSE NA

\* groupby([...]).size(): one row for each group that has members.
Agrupa(rows, Chave(_)) ==
    {[chave |-> k[1], Servico |-> k[2],
      Quantidade |-> Cardinality({i \in DOMAIN rows :
                        <<Chave(rows[i]), rows[i].Servico.v>> = k})] :
     k \in Valores(rows, LAMBDA r : <<Chave(r), r.Servico.v>>)}

display_columns == {"N", "Status", "Origem", "Servico", "SalaCirurgica",
                    "InicioReal", "TerminoReal", "DuracaoFormatada"}

\* Lines 175-239: everything a pass renders from the filtered frame.
Indicadores(rows, columns) ==
    [total_terminal |-> Len(DoServico(rows, limpeza_terminal)),
     total_concorrente |-> Len(DoServico(rows, limpeza_concorrente)),
     media_terminal |-> MediaFormatada(mean(DoServico(rows, limpeza_terminal))),
     media_concorrente |-> MediaFormatada(mean(DoServico(rows, limpeza_concorrente))),
     limpezas_por_dia |-> Agrupa(rows, LAMBDA r : date(r.InicioReal)),
     limpezas_por_sala |-> Agrupa(rows, LAMBDA r : r.SalaCirurgica),
     tabela |-> MapRows(rows, LAMBDA r :
                    [c \in display_columns \cap columns |-> r[c]])]

----------------------------------------------------------------------------
(* The files a user can upload *)

Finalizada == Str(<<"F","i","n","a","l","i","z","a","d","a">>)
FINALIZADA == Str(<<"F","I","N","A","L","I","Z","A","D","A">>)
FinalizadaEspaco == Str(<<"F","i","n","a","l","i","z","a","d","a"," ">>)
Pendente == Str(<<"P","e","n","d","e","n","t","e">>)
LimpezaTerminal == Str(<<"L","i","m","p","e","z","a"," ","T","e","r","m","i","n","a","l">>)
LimpezaConcorrente ==
    Str(<<" ","L","I","M","P","E","Z","A"," ","C","O","N","C","O","R","R","E","N","T","E"," ">>)
Manutencao == Str(<<"M","a","n","u","t","e","n","c","a","o">>)
Ilegivel == Str(<<"x">>)
Origem == Str(<<"C","C">>)

Linha(status, servico, local, inicio, termino) ==
    [Status |-> status, Origem |-> Origem, Servico |-> servico, Local |-> local,
     InicioReal |-> inicio, TerminoReal |-> termino]

\* The rows a file is made of: finalized and not, valid services and not,
\* rooms given as paths, as blanks and as non-strings, times that parse and
\* times that do not, and an end before its start.
RowPool ==
    { Linha(Finalizada, LimpezaTerminal, Str(<<"/","C","/","S","1">>),
            DataHora(0, 8 * 3600), DataHora(0, 10 * 3600 + 5 * 60)),
      Linha(FINALIZADA, LimpezaConcorrente, Str(<<" ">>),
            DataHora(1, 600), DataHora(1, 690)),
      Linha(Finalizada, LimpezaTerminal, Inteiro(<<"7">>),
            DataHora(1, 10 * 3600), DataHora(1, 10 * 3600 - 5 * 60)),
      Linha(Finalizada, LimpezaConcorrente, NaN,
            DataHora(0, 23 * 3600), DataHora(2, 0)),
      Linha(Finalizada, LimpezaTerminal, Str(<<"C","/","S","1","/"," ">>),
            DataHora(1, 3600), DataHora(1, 2 * 3600)),
      Linha(Pendente, LimpezaTerminal, Str(<<"/","C","/","S","1">>),
            DataHora(0, 8 * 3600), DataHora(0, 9 * 3600)),
      Linha(Finalizada, Manutencao, Str(<<"/","C","/","S","1">>),
            DataHora(0, 8 * 3600), DataHora(0, 9 * 3600)),
      Linha(Finalizada, LimpezaConcorrente, Str(<<"C","/","S","2","/">>),
            Ilegivel, DataHora(0, 9 * 3600)),
      Linha(FinalizadaEspaco, NaN, Str(<<>>),
            DataHora(0, 8 * 3600), NaN),
      Linha(NaN, LimpezaTerminal, Str(<<"/","C","/","S","1">>),
            DataHora(0, 8 * 3600), DataHora(0, 9 * 3600)) }

\* The sheets of up to MaxRows rows; column 'Nº' numbers the rows.
Datasets ==
    UNION {{[i \in 1..n |-> linhas[i] @@ [N |-> Inteiro(digits(i))]] :
            linhas \in [1..n -> RowPool]} : n \in 0..MaxRows}

TodasColunas == {usecols[i] : i \in DOMAIN usecols}
NomeCsv == <<"d",".","c","s","v">>
NomeXlsx == <<"D",".","X","L","S","X">>
NomeTxt == <<"d",".","t","x","t">>

UmaLinha == CHOOSE d \in Datasets : Len(d) = 1

\* Sheets of every content under a supported name; sheets with some of the
\* columns, but at least one; an unsupported name and an unreadable file.
Arquivos ==
    {[name |-> NomeCsv, columns |-> TodasColunas, rows |-> d, legivel |-> TRUE] :
        d \in Datasets}
    \cup {[name |-> NomeCsv, columns |-> cs, rows |-> UmaLinha, legivel |-> TRUE] :
            cs \in (SUBSET TodasColunas) \ {{}}}
    \cup {[name |-> nome, columns |-> TodasColunas, rows |-> UmaLinha, legivel |-> l] :
            nome \in {NomeTxt, NomeXlsx}, l \in BOOLEAN}

----------------------------------------------------------------------------
(* The script: one render pass per upload or widget interaction *)

VARIABLES
    uploaded_file,  \* the file in the uploader, or None
    pc,             \* where the pass is: "load", "process", "filter", "done"
    df_raw,         \* line 132, or None
    df_processed,   \* line 135, or None
    filtros,        \* the widget values of lines 143-158, or None
    mensagens,      \* the messages this pass has shown
    saida,          \* what this pass has rendered (lines 175-239), or None
    primeiro        \* the filters and output of the first pass that reached
                    \* the filters since the upload, and whether a later pass
                    \* has reached them too (revista); or None

vars == <<uploaded_file, pc, df_raw, df_processed, filtros, mensagens, saida, primeiro>>

\* The first run of the script: nothing uploaded (line 245).
Init ==
    /\ uploaded_file = None
    /\ pc = "done"
    /\ df_raw = None
    /\ df_processed = None
    /\ filtros = None
    /\ mensagens = {Msg("info", "faca_upload", <<>>)}
    /\ saida = None
    /\ primeiro = None

\* A rerun starts from an empty page.
NovaPassagem ==
    /\ pc' = "load"
    /\ df_raw' = None
    /\ df_processed' = None
    /\ filtros' = None
    /\ mensagens' = {}
    /\ saida' = None

\* The user puts a file in the empty uploader (lines 124-128); to replace a
\* file is to clear the uploader (Remove) and to choose another.
Upload ==
    /\ pc = "done"
    /\ uploaded_file = None
    /\ \E f \in Arquivos : uploaded_file' = f
    /\ primeiro' = None
    /\ NovaPassagem

\* The user changes a widget: the script runs again on the same file.
Rerun ==
    /\ pc = "done"
    /\ uploaded_file # None
    /\ UNCHANGED <<uploaded_file, primeiro>>
    /\ NovaPassagem

\* The user clears the uploader: lines 131 and 244-245.
Remove ==
    /\ pc = "done"
    /\ uploaded_file # None
    /\ uploaded_file' = None
    /\ pc' = "done"
    /\ mensagens' = {Msg("info", "faca_upload", <<>>)}
    /\ df_raw' = None /\ df_processed' = None /\ filtros' = None
    /\ saida' = None /\ primeiro' = None

\* Line 134.
Carregou(ret) == ret # None /\ ~empty(ret)

\* Lines 132-134 and 242-243.
Load ==
    /\ pc = "load"
    /\ LET r == load_data(uploaded_file)
       IN /\ df_raw' = r.ret
          /\ IF Carregou(r.ret)
             THEN /\ mensagens' = mensagens \cup r.msgs
                  /\ pc' = "process"
             ELSE /\ mensagens' = mensagens \cup r.msgs
                                   \cup {Msg("warning", "nao_processado", <<>>)}
                  /\ pc' = "done"
    /\ UNCHANGED <<uploaded_file, df_processed, filtros, saida, primeiro>>

\* Line 137.
SemDados(ret) == ret = None \/ empty(ret)

\* Lines 135-138.
Process ==
    /\ pc = "process"
    /\ \E excecao \in BOOLEAN :
        LET r == process_data(df_raw, excecao)
        IN /\ df_processed' = r.ret
           /\ df_raw' = EntradaAposChamada(df_raw)
           /\ IF SemDados(r.ret)
              THEN /\ mensagens' = mensagens \cup r.msgs
                                    \cup {Msg("warning", "dados_invalidos", <<>>)}
                   /\ pc' = "done"
              ELSE /\ mensagens' = mensagens \cup r.msgs
                   /\ pc' = "filter"
    /\ UNCHANGED <<uploaded_file, filtros, saida, primeiro>>

\* The test of line 173 left out: the indicators are rendered regardless.
ExibeSempre(rows, columns) == [saida |-> Indicadores(rows, columns), msgs |-> {}]

\* Lines 173-241.
Exibe(rows, columns) ==
    IF rows # <<>>
    THEN [saida |-> Indicadores(rows, columns), msgs |-> {}]
    ELSE [saida |-> None, msgs |-> {Msg("info", "sem_dados_filtros", <<>>)}]

\* Lines 141-241: the widgets take the values the user has chosen, within
\* what each widget offers, and the page is rendered.
Render ==
    /\ pc = "filter"
    /\ \E data_inicio \in data_min(df_processed.rows)..data_max(df_processed.rows),
          data_fim \in data_min(df_processed.rows)..data_max(df_processed.rows),
          tipo_selecionado \in tipos_limpeza :
        \E sala_selecionada \in SUBSET salas_disponiveis(
                FiltraDatas(df_processed.rows, data_inicio, data_fim)) :
            LET f == [data_inicio |-> data_inicio, data_fim |-> data_fim,
                      sala_selecionada |-> sala_selecionada,
                      tipo_selecionado |-> tipo_selecionado]
                e == Exibe(df_final(df_processed.rows, f), df_processed.columns)
            IN /\ filtros' = f
               /\ saida' = e.saida
               /\ mensagens' = mensagens \cup e.msgs
               /\ primeiro' = IF primeiro = None
                              THEN [filtros |-> f, saida |-> e.saida,
                                    mensagens |-> e.msgs, revista |-> FALSE]
                              ELSE [primeiro EXCEPT !.revista = TRUE]
    /\ pc' = "done"
    /\ UNCHANGED <<uploaded_file, df_raw, df_processed>>

Next == Upload \/ Rerun \/ Remove \/ Load \/ Process \/ Render

Spec == Init /\ [][Next]_vars

----------------------------------------------------------------------------
(* Properties *)

\* What the properties say of a row of the uploaded sheet, cell by cell.
EhFinalizada(linha) == linha.Status.t = "str" /\ lower(linha.Status.v) = finalizada
ServicoDe(linha) == IF linha.Servico.t = "str" THEN lower(strip(linha.Servico.v)) ELSE <<>>
TemDatas(linha) == linha.InicioReal.t = "datahora" /\ linha.TerminoReal.t = "datahora"
LocalEhTexto(linha) == linha.Local.t = "str" /\ strip(linha.Local.v) # <<>>

Linhas(rows) == {rows[i] : i \in DOMAIN rows}
Processou == df_processed # None
Exibiu == saida # None

RECURSIVE SomaQuantidade(_)
SomaQuantidade(grupos) ==
    IF grupos = {} THEN 0
    ELSE LET g == CHOOSE g \in grupos : TRUE
         IN g.Quantidade + SomaQuantidade(grupos \ {g})

\* C1: every record process_data returns, and every record of the detail
\* table, has a status that is "finalizada" up to case and a normalized
\* service that is one of the two valid ones.
C1_SoFinalizadasValidas ==
    /\ Processou =>
        \A r \in Linhas(df_processed.rows) :
            lower(r.Status.v) = finalizada /\ r.Servico.v \in valid_services
    /\ Exibiu =>
        /\ \A r \in Linhas(saida.tabela) :
            lower(r.Status.v) = finalizada /\ r.Servico.v \in valid_services
        /\ \A g \in saida.limpezas_por_dia : g.Servico \in valid_services
        /\ \A g \in saida.limpezas_por_sala : g.Servico \in valid_services

\* A page is rendered, with a record whose status is "finalizada" in another
\* case, from a sheet that also held a row that fails one of the conditions.
C1_Witness ==
    /\ Exibiu
    /\ \E r \in Linhas(saida.tabela) : r.Status.v # finalizada
    /\ \E l \in Linhas(uploaded_file.rows) :
        ~(EhFinalizada(l) /\ ServicoDe(l) \in valid_services)

\* C2: every record process_data returns has a duration of at least 0 minutes.
C2_DuracaoNaoNegativa ==
    Processou => \A r \in Linhas(df_processed.rows) : r.DuracaoMinutos.num >= 0

\* C3: when every row of the sheet has both times parseable and the filters
\* are the full date range, no room and "Todos", the two totals are the
\* numbers of finalized rows of the sheet of each service, and every group of
\* the two charts counts finalized rows of its service only.
FiltrosAbertos ==
    /\ filtros # None
    /\ filtros.data_inicio = data_min(df_processed.rows)
    /\ filtros.data_fim = data_max(df_processed.rows)
    /\ filtros.sala_selecionada = {}
    /\ filtros.tipo_selecionado = "Todos"

FinalizadasDe(servico) ==
    {i \in DOMAIN uploaded_file.rows :
        EhFinalizada(uploaded_file.rows[i]) /\ ServicoDe(uploaded_file.rows[i]) = servico}

C3_TotaisContamFinalizadas ==
    (/\ Exibiu
     /\ FiltrosAbertos
     /\ \A l \in Linhas(uploaded_file.rows) : TemDatas(l))
    => /\ saida.total_terminal = Cardinality(FinalizadasDe(limpeza_terminal))
       /\ saida.total_concorrente = Cardinality(FinalizadasDe(limpeza_concorrente))
       /\ \A g \in saida.limpezas_por_dia :
            g.Quantidade = Cardinality({i \in FinalizadasDe(g.Servico) :
                                uploaded_file.rows[i].InicioReal.dia = g.chave})
       /\ \A servico \in valid_services :
            SomaQuantidade({g \in saida.limpezas_por_sala : g.Servico = servico})
                = Cardinality(FinalizadasDe(servico))

\* Totals are reported for a sheet of parseable rows, one of them not finalized.
C3_Witness ==
    /\ Exibiu
    /\ FiltrosAbertos
    /\ \A l \in Linhas(uploaded_file.rows) : TemDatas(l)
    /\ \E l \in Linhas(uploaded_file.rows) : ~EhFinalizada(l)
    /\ saida.total_terminal + saida.total_concorrente = 1
    /\ Len(uploaded_file.rows) = 2

\* C4: a supported, readable file that lacks required columns gets an error
\* message that lists exactly the required columns it lacks; one that has
\* every column and no row gets the empty-file error; neither returns data.
Suportado(f) == endswith(lower(f.name), xlsx) \/ endswith(lower(f.name), csv)

C4_ErroListaColunasAusentes ==
    (pc = "done" /\ uploaded_file # None /\ Suportado(uploaded_file)
        /\ uploaded_file.legivel)
    => /\ Ausentes(required_columns, uploaded_file.columns) # <<>> =>
            /\ df_raw = None
            /\ \E m \in mensagens :
                /\ m.level = "error"
                /\ m.detalhe = Ausentes(required_columns, uploaded_file.columns)
       /\ (uploaded_file.columns = TodasColunas /\ uploaded_file.rows = <<>>) =>
            /\ df_raw = None
            /\ Msg("error", "vazio", <<>>) \in mensagens

\* C5: for a location that is a non-blank string, the room is the last
\* segment of the path left after stripping slashes and whitespace from both
\* ends of the whole string, trimmed.
SalaPelaSpec(s) ==
    LET partes == split(strip_chars(s, {"/"} \cup Whitespace), "/")
    IN strip(partes[Len(partes)])

C5_UltimoSegmentoSemBrancos ==
    Processou =>
        \A r \in Linhas(df_processed.rows) :
            LocalEhTexto(r) => r.SalaCirurgica = SalaPelaSpec(r.Local.v)

\* C6 as stated: a location that is not a non-blank string gives the room
\* "Unknown".
Unknown == <<"U","n","k","n","o","w","n">>

C6_SentinelaUnknown ==
    Processou =>
        \A r \in Linhas(df_processed.rows) :
            ~LocalEhTexto(r) => r.SalaCirurgica = Unknown

\* C6, amended: a location that is not a non-blank string (an empty cell, a
\* number, "", blanks) gives the room "Desconhecida", and the row stays in
\* the pipeline: every finalized row of a valid service with both times
\* parseable is among the records returned, whatever its location.
C6_SentinelaDesconhecida ==
    Processou =>
        /\ \A r \in Linhas(df_processed.rows) :
            ~LocalEhTexto(r) => r.SalaCirurgica = Desconhecida
        /\ \A l \in Linhas(df_raw.rows) :
            (EhFinalizada(l) /\ ServicoDe(l) \in valid_services /\ TemDatas(l))
            => \E r \in Linhas(df_processed.rows) : r.N = l.N /\ r.Local = l.Local

\* Two records are returned, one located by a number and one by blanks.
C6_Witness ==
    /\ Processou
    /\ \E r \in Linhas(df_processed.rows) :
        r.Local.t = "int" /\ r.SalaCirurgica = Desconhecida
    /\ \E r \in Linhas(df_processed.rows) :
        r.Local = Str(<<" ">>) /\ r.SalaCirurgica = Desconhecida

\* C7: a pass whose filters leave no record (the start date of a record
\* within the two chosen dates, both included; its room among the chosen
\* ones, if any; its service the chosen one, if any) ends with the message
\* "no data for the selected filters" alone and renders nothing.
Passa(r, f) ==
    /\ f.data_inicio <= date(r.InicioReal) /\ date(r.InicioReal) <= f.data_fim
    /\ f.sala_selecionada = {} \/ r.SalaCirurgica \in f.sala_selecionada
    /\ \/ f.tipo_selecionado = "Todos"
       \/ f.tipo_selecionado = "Limpeza Terminal" /\ r.Servico.v = limpeza_terminal
       \/ f.tipo_selecionado = "Limpeza Concorrente" /\ r.Servico.v = limpeza_concorrente

C7_SemDadosParaFiltros ==
    (pc = "done" /\ filtros # None)
    => /\ (\A r \in Linhas(df_processed.rows) : ~Passa(r, filtros))
            => /\ saida = None
               /\ mensagens = {Msg("info", "sem_dados_filtros", <<>>)}
       /\ (\E r \in Linhas(df_processed.rows) : Passa(r, filtros))
            => /\ Exibiu
               /\ Linhas(saida.tabela) =
                    {[c \in display_columns |-> r[c]] :
                        r \in {q \in Linhas(df_processed.rows) : Passa(q, filtros)}}

\* The chosen start date is after the chosen end date.
C7_Witness ==
    /\ pc = "done"
    /\ filtros # None
    /\ filtros.data_inicio > filtros.data_fim
    /\ saida = None
    /\ mensagens = {Msg("info", "sem_dados_filtros", <<>>)}

\* C8: a pass that shows an error or a warning renders nothing; a finished
\* pass on a file that renders nothing shows a message; and a pass renders
\* only after load_data returned rows, process_data returned records and the
\* filters left records, in that order.
C8_MensagemOuResultado ==
    /\ (\E m \in mensagens : m.level \in {"error", "warning"}) => saida = None
    /\ (pc = "done" /\ saida = None) => mensagens # {}
    /\ df_processed # None => (df_raw # None /\ df_raw.rows # <<>>)
    /\ filtros # None => (df_processed # None /\ df_processed.rows # <<>>)
    /\ Exibiu => /\ pc = "done"
                 /\ filtros # None
                 /\ saida.tabela # <<>>
    /\ pc \in {"load", "process", "filter"} => saida = None

\* process_data raised, the error is on the page and nothing is rendered.
C8_Witness ==
    /\ pc = "done"
    /\ df_raw # None
    /\ Msg("error", "excecao_processar", <<>>) \in mensagens
    /\ saida = None

\* C9: the formatted duration of every record process_data returns is
\* digits, ":", two digits below 60, with no sign.
Digitos == {"0","1","2","3","4","5","6","7","8","9"}

BemFormada(s) ==
    /\ Len(s) >= 5
    /\ s[Len(s) - 2] = ":"
    /\ \A i \in DOMAIN s : i # Len(s) - 2 => s[i] \in Digitos
    /\ s[Len(s) - 1] \in {"0","1","2","3","4","5"}

C9_DuracaoFormatadaBemFormada ==
    Processou =>
        \A r \in Linhas(df_processed.rows) : BemFormada(r.DuracaoFormatada)

====
